---- MODULE Spec2Model ----
(***************************************************************************)
(* Model of fan.py: a loop that reads the CPU package temperature from     *)
(* OpenHardwareMonitor and drives the fan mode of a remote iDRAC through   *)
(* ipmitool, with a finally block that decides the fan state on exit.      *)
(*                                                                         *)
(* Temperatures are whole degrees Celsius.  A JSON value is a record with  *)
(* a type tag t; a JSON string is the sequence of its whitespace-separated *)
(* tokens, a token being a number literal or a word.                       *)
(***************************************************************************)
EXTENDS Integers, Sequences, FiniteSets, TLC

\* ------------------------------------------------------------------------
\* Configuration (fan.py lines 9-30)
\* ------------------------------------------------------------------------
TEMP_LOW_THRESHOLD_NEW == 60
TEMP_AUTO_THRESHOLD_NEW == 70
FAN_SPEED_LOW_HEX_NEW == "0x0A"
FAN_SPEED_MEDIUM_HEX_NEW == "0x32"
DELL_DISABLE_AUTO_FAN_CMD_ARGS == <<"raw", "0x30", "0x30", "0x01", "0x00">>
DELL_ENABLE_AUTO_FAN_CMD_ARGS == <<"raw", "0x30", "0x30", "0x01", "0x01">>
DELL_SET_FAN_SPEED_PREFIX_CMD_ARGS == <<"raw", "0x30", "0x30", "0x02", "0xff">>
base_cmd == <<"ipmitool", "-I", "lanplus", "-H", "IDRAC_IP", "-U", "IDRAC_USER", "-P", "IDRAC_PASSWORD">>

\* Values of idrac_fan_mode_is_manual: None, True, False
Unknown == "None"
Manual == "True"
Auto == "False"

\* ------------------------------------------------------------------------
\* JSON values
\* ------------------------------------------------------------------------
JNull == [t |-> "null"]
JNum(n) == [t |-> "num", n |-> n]
JStr(tokens) == [t |-> "str", tokens |-> tokens]
JList(items) == [t |-> "list", items |-> items]
JObj(fields) == [t |-> "obj", f |-> fields]

Num(n) == [num |-> TRUE, v |-> n, w |-> ""]
Word(w) == [num |-> FALSE, v |-> 0, w |-> w]
Text(w) == JStr(<<Word(w)>>)
EmptyStr == JStr(<<>>)
CpuPackage == JStr(<<Word("CPU"), Word("Package")>>)

\* Python truthiness of a decoded JSON value
Truthy(x) ==
  CASE x.t = "null" -> FALSE
    [] x.t = "num" -> x.n # 0
    [] x.t = "str" -> x.tokens # <<>>
    [] x.t = "list" -> x.items # <<>>
    [] x.t = "obj" -> DOMAIN x.f # {}

\* dict.get(key, default); the caller has checked that x is an object
Get(x, key, default) == IF key \in DOMAIN x.f THEN x.f[key] ELSE default

\* str.lower() on one word
Lower(w) ==
  CASE w = "CPU" -> "cpu"
    [] w = "Intel" -> "intel"
    [] w = "AMD" -> "amd"
    [] w = "Memory" -> "memory"
    [] OTHER -> w

\* needle in s.lower(): the words of the feed that hold a needle are the
\* needle itself in some case
Contains(tokens, needle) == \E i \in 1..Len(tokens) : Lower(tokens[i].w) = needle

\* str.endswith('cpu.png') for the icon references of the feed
EndsWithCpuPng(tokens) == tokens # <<>> /\ tokens[Len(tokens)].w \in {"cpu.png", "images_icon/cpu.png"}

\* iterating a value in a for loop: a list yields its items, an empty
\* string or object yields nothing, anything else raises in the loop body
\* or in iter()
Iter(x) ==
  IF x.t = "list" THEN [raised |-> FALSE, items |-> x.items]
  ELSE IF x.t \in {"str", "obj"} /\ ~Truthy(x) THEN [raised |-> FALSE, items |-> <<>>]
  ELSE [raised |-> TRUE, items |-> <<>>]

\* ------------------------------------------------------------------------
\* get_cpu_package_temp_from_ohm (fan.py lines 38-96)
\* ------------------------------------------------------------------------
NoReading == [present |-> FALSE, val |-> 0]
Reading(v) == [present |-> TRUE, val |-> v]

Raised == [raised |-> TRUE, temps |-> <<>>]
Found(temps) == [raised |-> FALSE, temps |-> temps]

SeqMax(s) == CHOOSE m \in {s[i] : i \in 1..Len(s)} : \A i \in 1..Len(s) : s[i] <= m

\* the for temp_sensor loop of one Temperatures component, from index i:
\* the first CPU Package leaf whose value parses ends the loop (break)
RECURSIVE ScanSensors(_, _)
ScanSensors(sensors, i) ==
  IF i > Len(sensors) THEN Found(<<>>)
  ELSE LET temp_sensor == sensors[i] IN
    IF temp_sensor.t # "obj" THEN Raised
    ELSE IF Get(temp_sensor, "Text", EmptyStr) = CpuPackage /\ "Value" \in DOMAIN temp_sensor.f
      THEN LET value == temp_sensor.f["Value"] IN
        IF value.t # "str" THEN Raised
        ELSE IF value.tokens = <<>> THEN ScanSensors(sensors, i + 1)
        ELSE IF ~Head(value.tokens).num THEN ScanSensors(sensors, i + 1)
        ELSE Found(<<Head(value.tokens).v>>)
      ELSE ScanSensors(sensors, i + 1)

\* the for component loop of one CPU hardware item, from index i
RECURSIVE ScanComponents(_, _)
ScanComponents(components, i) ==
  IF i > Len(components) THEN Found(<<>>)
  ELSE LET component == components[i] IN
    IF component.t # "obj" THEN Raised
    ELSE LET here ==
           IF Get(component, "Text", EmptyStr) = Text("Temperatures")
           THEN LET it == Iter(Get(component, "Children", JList(<<>>))) IN
                IF it.raised THEN Raised ELSE ScanSensors(it.items, 1)
           ELSE Found(<<>>)
         IN IF here.raised THEN Raised
            ELSE LET rest == ScanComponents(components, i + 1) IN
                 IF rest.raised THEN Raised ELSE Found(here.temps \o rest.temps)

\* the CPU test of one hardware item (lines 67-74)
IsCpu(hardware_item) ==
  LET text == Get(hardware_item, "Text", EmptyStr)
      image == Get(hardware_item, "ImageURL", EmptyStr)
  IN IF text.t # "str" THEN [raised |-> TRUE, is_cpu |-> FALSE]
     ELSE IF Contains(text.tokens, "cpu") \/ Contains(text.tokens, "intel") \/ Contains(text.tokens, "amd")
       THEN [raised |-> FALSE, is_cpu |-> TRUE]
     ELSE IF image.t # "str" THEN [raised |-> TRUE, is_cpu |-> FALSE]
     ELSE [raised |-> FALSE, is_cpu |-> EndsWithCpuPng(image.tokens)]

\* the for hardware_item loop (lines 66-87), from index i
RECURSIVE ScanHardware(_, _)
ScanHardware(hardware_list, i) ==
  IF i > Len(hardware_list) THEN Found(<<>>)
  ELSE LET hardware_item == hardware_list[i] IN
    IF hardware_item.t # "obj" THEN Raised
    ELSE LET c == IsCpu(hardware_item) IN
      IF c.raised THEN Raised
      ELSE LET here ==
             IF c.is_cpu
             THEN LET it == Iter(Get(hardware_item, "Children", JList(<<>>))) IN
                  IF it.raised THEN Raised ELSE ScanComponents(it.items, 1)
             ELSE Found(<<>>)
           IN IF here.raised THEN Raised
              ELSE LET rest == ScanHardware(hardware_list, i + 1) IN
                   IF rest.raised THEN Raised ELSE Found(here.temps \o rest.temps)

\* The result of one call: raised is TRUE when an exception leaves the
\* function (only requests' errors and ValueError are caught in it), and
\* temp is the returned reading otherwise (NoReading for None).
Returns(reading) == [raised |-> FALSE, temp |-> reading]
Raises == [raised |-> TRUE, temp |-> NoReading]

get_cpu_package_temp_from_ohm(response) ==
  IF response.status \in {"ConnectionError", "Timeout", "HTTPError"} THEN Returns(NoReading)
  ELSE IF response.status = "JSONDecodeError" THEN Returns(NoReading)
  ELSE LET data == response.data IN
    IF data.t # "obj" THEN Raises
    ELSE LET children == Get(data, "Children", JNull) IN
      IF ~Truthy(children) \/ children.t # "list" THEN Returns(NoReading)
      ELSE LET computer_node == children.items[1] IN
        IF computer_node.t # "obj" THEN Raises
        ELSE LET hardware == Get(computer_node, "Children", JNull) IN
          IF ~Truthy(hardware) \/ hardware.t # "list" THEN Returns(NoReading)
          ELSE LET package_temps == ScanHardware(hardware.items, 1) IN
            IF package_temps.raised THEN Raises
            ELSE IF package_temps.temps = <<>> THEN Returns(NoReading)
            ELSE Returns(Reading(SeqMax(package_temps.temps)))

\* ------------------------------------------------------------------------
\* Telemetry responses the feed can give
\* ------------------------------------------------------------------------
TempSet == {50, 59, 60, 65, 68, 69, 70, 72}
PairSet == {50, 72}

Failed(status) == [status |-> status, data |-> JNull]
Json(data) == [status |-> "ok", data |-> data]

Celsius(v) == JStr(<<Num(v), Word("C")>>)
Sensor(name, value) == JObj([Text |-> name, Value |-> value])
Temperatures(sensors) == JObj([Text |-> Text("Temperatures"), Children |-> JList(sensors)])
Hardware(label, image, components) == JObj([Text |-> label, ImageURL |-> image, Children |-> JList(components)])
Computer(hardware_list) == JObj([Text |-> Text("PC"), Children |-> JList(hardware_list)])
Document(hardware_list) == JObj([Text |-> Text("Sensor"), Children |-> JList(<<Computer(hardware_list)>>)])

IntelCpu(sensors) == Hardware(JStr(<<Word("Intel"), Word("Xeon")>>), Text("images_icon/cpu.png"), <<Temperatures(sensors)>>)
AmdCpu(sensors) == Hardware(JStr(<<Word("AMD"), Word("EPYC")>>), Text("images_icon/chip.png"), <<Temperatures(sensors)>>)
IconCpu(sensors) == Hardware(Text("Processor"), Text("images_icon/cpu.png"), <<Temperatures(sensors)>>)
Ram(sensors) == Hardware(JStr(<<Word("Generic"), Word("Memory")>>), Text("images_icon/ram.png"), <<Temperatures(sensors)>>)
Package(v) == Sensor(CpuPackage, Celsius(v))
Core(v) == Sensor(JStr(<<Word("CPU"), Word("Core"), Word("#1")>>), Celsius(v))

TransportErrors == {Failed("ConnectionError"), Failed("Timeout"), Failed("HTTPError")}
DecodeErrors == {Failed("JSONDecodeError")}

\* documents whose shape is not the expected tree
MalformedDocs ==
  { JList(<<>>), JNull,
    JObj([Text |-> Text("Sensor")]),
    JObj([Children |-> JList(<<>>)]),
    JObj([Children |-> Text("none")]),
    JObj([Children |-> JList(<<Text("PC")>>)]),
    JObj([Children |-> JList(<<JObj([Text |-> Text("PC")])>>)]),
    Document(<<Text("CPU")>>),
    Document(<<IntelCpu(<<Sensor(CpuPackage, JNum(50))>>)>>),
    Document(<<IntelCpu(<<Sensor(CpuPackage, JNull)>>)>>) }

\* well-formed snapshots without a CPU Package value that parses
NoSensorDocs ==
  { Document(<<Ram(<<Package(50)>>)>>),
    Document(<<IntelCpu(<<Core(72)>>)>>),
    Document(<<IntelCpu(<<>>)>>),
    Document(<<IntelCpu(<<Sensor(CpuPackage, Text("n/a"))>>)>>),
    Document(<<IntelCpu(<<Sensor(CpuPackage, EmptyStr)>>)>>),
    Document(<<IntelCpu(<<JObj([Text |-> CpuPackage])>>)>>) }

\* well-formed snapshots with at least one CPU Package value that parses
ReadingDocs ==
  { Document(<<IntelCpu(<<Package(v)>>)>>) : v \in TempSet }
  \cup { Document(<<Ram(<<Package(72)>>), IconCpu(<<Core(72), Package(v)>>)>>) : v \in TempSet }
  \cup { Document(<<IntelCpu(<<Package(a)>>), AmdCpu(<<Package(b)>>)>>) : a \in PairSet, b \in PairSet }
  \cup { Document(<<AmdCpu(<<Sensor(CpuPackage, Text("n/a")), Package(a)>>)>>) : a \in PairSet }

Documents == MalformedDocs \cup NoSensorDocs \cup ReadingDocs
Responses == TransportErrors \cup DecodeErrors \cup {Json(d) : d \in Documents}

\* which kind of telemetry outcome a response is (taxonomy of the error
\* messages printed by get_cpu_package_temp_from_ohm)
OhmClass(response) ==
  CASE response \in TransportErrors -> "transport"
    [] response \in DecodeErrors -> "decode"
    [] response.data \in MalformedDocs -> "shape"
    [] response.data \in NoSensorDocs -> "nosensor"
    [] OTHER -> "reading"

\* ------------------------------------------------------------------------
\* run_ipmi_command (fan.py lines 98-137)
\* ------------------------------------------------------------------------
\* what subprocess.run does: returns (exit status 0), or raises
Completed == [exc |-> "none", stderr |-> ""]
CalledProcessError(stderr) == [exc |-> "CalledProcessError", stderr |-> stderr]
Throws(e) == [exc |-> e, stderr |-> ""]
RunResults ==
  { Completed, CalledProcessError(""), CalledProcessError("diagnostic"),
    Throws("TimeoutExpired"), Throws("FileNotFoundError"), Throws("OSError"),
    Throws("KeyboardInterrupt") }

Range(s) == {s[i] : i \in 1..Len(s)}

\* the except clauses of lines 117-136: the exception that leaves
\* run_ipmi_command when subprocess.run ends with result, "none" if it is
\* caught (KeyboardInterrupt is not an Exception)
Escapes_NoCatchAll(result) ==
  IF result.exc = "KeyboardInterrupt" THEN "KeyboardInterrupt"
  ELSE IF result.exc = "OSError" THEN "Exception"
  ELSE "none"
Escapes(result) ==
  IF result.exc = "KeyboardInterrupt" THEN "KeyboardInterrupt" ELSE "none"

\* the value returned when subprocess.run ends with result and no exception
\* leaves the function
run_ipmi_command_Strict(command_args, expect_output, result) ==
  IF result.exc = "none" THEN (IF expect_output THEN "stdout" ELSE TRUE)
  ELSE (IF expect_output THEN "None" ELSE FALSE)
run_ipmi_command(command_args, expect_output, result) ==
  LET full_cmd == base_cmd \o command_args IN
  IF result.exc = "none" THEN (IF expect_output THEN "stdout" ELSE TRUE)
  ELSE IF result.exc = "CalledProcessError" /\ ~expect_output /\ result.stderr = "" /\ "raw" \in Range(full_cmd)
    THEN TRUE
  ELSE (IF expect_output THEN "None" ELSE FALSE)

\* int(speed_hex, 16) succeeds
IsHex(speed_hex) == speed_hex \in {"0x0A", "0x32"}

\* one issued command and how it ended
Issued(command_args, result) == [args |-> command_args, result |-> result]
SpeedArgs(speed_hex) == DELL_SET_FAN_SPEED_PREFIX_CMD_ARGS \o <<speed_hex>>
IsFailure(c) == Escapes(c.result) = "none" /\ ~run_ipmi_command(c.args, FALSE, c.result)
IsSuccess(c) == Escapes(c.result) = "none" /\ run_ipmi_command(c.args, FALSE, c.result)

\* the comparisons of main_control_loop (lines 215, 217, 223) and of the
\* finally block (lines 258, 260)
HasReading_Always(temp) == TRUE
HasReading(temp) == temp.present
GoesAuto_Strict(temp) == temp.val > TEMP_AUTO_THRESHOLD_NEW
GoesAuto(temp) == temp.val >= TEMP_AUTO_THRESHOLD_NEW
GoesLow(temp) == temp.val < TEMP_LOW_THRESHOLD_NEW

\* ------------------------------------------------------------------------
\* State
\* ------------------------------------------------------------------------
VARIABLES
  idrac_fan_mode_is_manual, \* the tracked remote mode: None, True or False
  pc,                       \* where the script is
  exc,                      \* the exception in flight, "none" if none
  local_cpu_temp,           \* the reading of this loop iteration
  ohm,                      \* the kind of telemetry outcome of this iteration
  decision,                 \* the branch main_control_loop took on the reading
  target_speed_hex,         \* the speed chosen by it, "None" if none
  speed_set,                \* what set_idrac_fan_speed_percentage returned
  cmds,                     \* the commands issued in this iteration, in order
  known0,                   \* idrac_fan_mode_is_manual when the iteration began
  loop_exit,                \* where and how main_control_loop was left
  fin_entered,              \* how many times the finally block was entered
  fin_known0,               \* idrac_fan_mode_is_manual when it was entered
  last_known_local_temp,    \* the reading taken in the finally block
  fin_ohm,                  \* the kind of telemetry outcome in the finally block
  fin_cmds,                 \* the commands issued in the finally block
  fin_abort,                \* the exception that cut the finally block short
  scenPos,                  \* iterations completed on the scenario, -1 once off it
  scenCmds,                 \* command arguments issued while on the scenario
  scenKnown,                \* idrac_fan_mode_is_manual after each such iteration
  reads,                    \* calls of get_cpu_package_temp_from_ohm in this iteration
  mode_issued,              \* the mode command issued last, and how it ended
  mode_acked,               \* the mode command that returned last, and how it ended
  snapshot,                 \* the document given to the reader on its own
  extracted                 \* what the reader made of it

tickVars == <<local_cpu_temp, ohm, decision, target_speed_hex, speed_set, cmds, known0, reads>>
finVars == <<fin_entered, fin_known0, last_known_local_temp, fin_ohm, fin_cmds, fin_abort>>
scenVars == <<scenPos, scenCmds, scenKnown>>
modeVars == <<mode_issued, mode_acked>>
extVars == <<snapshot, extracted>>
vars == <<idrac_fan_mode_is_manual, pc, exc, tickVars, loop_exit, finVars, scenVars, modeVars, extVars>>

LoopPcs == {"fetch", "decide", "set_auto", "ensure_manual", "set_speed", "sleep"}
FinPcs == {"fin_fetch", "fin_decide", "fin_set_auto"}

\* the readings of the end-to-end scenario of the design's testable properties
Scenario == <<50, 65, 72, 68>>

NotLeft == [at |-> "none", by |-> "none"]
NoModeCommand == [args |-> <<>>, outcome |-> "none"]
NotExtracted == [done |-> FALSE, raised |-> FALSE, temp |-> NoReading]

\* the script's state when main_control_loop is entered
ControlInit ==
  /\ idrac_fan_mode_is_manual = Unknown
  /\ pc = "fetch"
  /\ exc = "none"
  /\ local_cpu_temp = NoReading
  /\ ohm = "none"
  /\ decision = "none"
  /\ target_speed_hex = "None"
  /\ speed_set = "none"
  /\ cmds = <<>>
  /\ known0 = Unknown
  /\ loop_exit = NotLeft
  /\ fin_entered = 0
  /\ fin_known0 = Unknown
  /\ last_known_local_temp = NoReading
  /\ fin_ohm = "none"
  /\ fin_cmds = <<>>
  /\ fin_abort = "none"
  /\ scenPos = 0
  /\ scenCmds = <<>>
  /\ scenKnown = <<>>
  /\ reads = 0
  /\ mode_issued = NoModeCommand
  /\ mode_acked = NoModeCommand

Init ==
  /\ ControlInit
  /\ snapshot = JNull
  /\ extracted = NotExtracted

\* set_idrac_fan_mode_auto (lines 139-150): the new idrac_fan_mode_is_manual
set_idrac_fan_mode_auto_NoReset(result) ==
  IF run_ipmi_command(DELL_ENABLE_AUTO_FAN_CMD_ARGS, FALSE, result) THEN Auto ELSE idrac_fan_mode_is_manual
set_idrac_fan_mode_auto_Stale(result) ==
  IF run_ipmi_command(DELL_ENABLE_AUTO_FAN_CMD_ARGS, FALSE, result) THEN idrac_fan_mode_is_manual ELSE Unknown
set_idrac_fan_mode_auto(result) ==
  IF run_ipmi_command(DELL_ENABLE_AUTO_FAN_CMD_ARGS, FALSE, result) THEN Auto ELSE Unknown

\* ensure_idrac_fan_mode_manual: the test of line 155
AlreadyManual_Never == FALSE
AlreadyManual == idrac_fan_mode_is_manual = Manual

\* ensure_idrac_fan_mode_manual (lines 159-167) when the command ends with
\* result: the new idrac_fan_mode_is_manual and the value returned
ensure_idrac_fan_mode_manual_Stale(result) ==
  IF run_ipmi_command(DELL_DISABLE_AUTO_FAN_CMD_ARGS, FALSE, result)
  THEN [mode |-> idrac_fan_mode_is_manual, ret |-> TRUE]
  ELSE [mode |-> Unknown, ret |-> FALSE]
ensure_idrac_fan_mode_manual_Optimistic(result) ==
  IF run_ipmi_command(DELL_DISABLE_AUTO_FAN_CMD_ARGS, FALSE, result)
  THEN [mode |-> Manual, ret |-> TRUE]
  ELSE [mode |-> Unknown, ret |-> TRUE]
ensure_idrac_fan_mode_manual(result) ==
  IF run_ipmi_command(DELL_DISABLE_AUTO_FAN_CMD_ARGS, FALSE, result)
  THEN [mode |-> Manual, ret |-> TRUE]
  ELSE [mode |-> Unknown, ret |-> FALSE]

\* ------------------------------------------------------------------------
\* The scenario observer
\* ------------------------------------------------------------------------
ScenOff == scenPos' = -1 /\ scenCmds' = <<>> /\ scenKnown' = <<>>

\* a command with these arguments ended with result during an iteration
ScenCommand(command_args, result) ==
  IF scenPos >= 0 /\ scenPos < Len(Scenario) /\ run_ipmi_command(command_args, FALSE, result) = TRUE
     /\ Escapes(result) = "none"
  THEN scenCmds' = Append(scenCmds, command_args) /\ UNCHANGED <<scenPos, scenKnown>>
  ELSE ScenOff

\* a mode command (enable-auto or manual-mode-enable) ended with result
ModeCommand(command_args, result) ==
  LET outcome == IF Escapes(result) # "none" THEN "interrupted"
                 ELSE IF run_ipmi_command(command_args, FALSE, result) THEN "ok" ELSE "failed"
  IN /\ mode_issued' = [args |-> command_args, outcome |-> outcome]
     /\ mode_acked' = IF outcome = "interrupted" THEN mode_acked ELSE mode_issued'

\* an exception leaves main_control_loop at pc
LeaveLoop(e) ==
  /\ pc' = "raised"
  /\ exc' = e
  /\ loop_exit' = [at |-> pc, by |-> e]

\* ------------------------------------------------------------------------
\* main_control_loop (fan.py lines 192-240)
\* ------------------------------------------------------------------------
\* line 213: local_cpu_temp = get_cpu_package_temp_from_ohm()
LoopFetch ==
  /\ pc = "fetch"
  /\ \E response \in Responses :
       LET r == get_cpu_package_temp_from_ohm(response) IN
       /\ ohm' = OhmClass(response)
       /\ IF r.raised
          THEN /\ LeaveLoop("Exception")
               /\ UNCHANGED local_cpu_temp
               /\ ScenOff
          ELSE /\ pc' = "decide"
               /\ local_cpu_temp' = r.temp
               /\ UNCHANGED <<exc, loop_exit>>
               /\ IF scenPos >= 0 /\ scenPos < Len(Scenario) /\ r.temp = Reading(Scenario[scenPos + 1])
                  THEN UNCHANGED scenVars
                  ELSE ScenOff
  /\ reads' = reads + 1
  /\ UNCHANGED <<idrac_fan_mode_is_manual, decision, target_speed_hex, speed_set, cmds, known0, finVars, modeVars, extVars>>

\* lines 215-236, and lines 171-176 of set_idrac_fan_speed_percentage
LoopDecide ==
  /\ pc = "decide"
  /\ IF ~HasReading(local_cpu_temp)
     THEN /\ decision' = "NoOp"
          /\ pc' = "sleep"
          /\ UNCHANGED <<target_speed_hex, speed_set>>
     ELSE IF GoesAuto(local_cpu_temp)
     THEN /\ decision' = "SetAutoMode"
          /\ pc' = "set_auto"
          /\ UNCHANGED <<target_speed_hex, speed_set>>
     ELSE /\ decision' = "SetManualSpeed"
          /\ target_speed_hex' = IF GoesLow(local_cpu_temp)
                                 THEN FAN_SPEED_LOW_HEX_NEW
                                 ELSE FAN_SPEED_MEDIUM_HEX_NEW
          /\ IF IsHex(target_speed_hex')
             THEN pc' = "ensure_manual" /\ UNCHANGED speed_set
             ELSE pc' = "sleep" /\ speed_set' = "False"
  /\ UNCHANGED <<idrac_fan_mode_is_manual, exc, local_cpu_temp, ohm, cmds, known0, reads, loop_exit, finVars, scenVars, modeVars, extVars>>

\* a variant that issues enable-auto a second time within the iteration
\* after a failure
LoopSetAuto_Retry ==
  /\ pc = "set_auto"
  /\ \E result \in RunResults :
       /\ cmds' = Append(cmds, Issued(DELL_ENABLE_AUTO_FAN_CMD_ARGS, result))
       /\ ScenCommand(DELL_ENABLE_AUTO_FAN_CMD_ARGS, result)
       /\ ModeCommand(DELL_ENABLE_AUTO_FAN_CMD_ARGS, result)
       /\ IF Escapes(result) # "none"
          THEN LeaveLoop(Escapes(result)) /\ UNCHANGED idrac_fan_mode_is_manual
          ELSE /\ idrac_fan_mode_is_manual' = set_idrac_fan_mode_auto(result)
               /\ pc' = IF ~run_ipmi_command(DELL_ENABLE_AUTO_FAN_CMD_ARGS, FALSE, result) /\ cmds = <<>>
                        THEN "set_auto" ELSE "sleep"
               /\ UNCHANGED <<exc, loop_exit>>
  /\ UNCHANGED <<local_cpu_temp, ohm, decision, target_speed_hex, speed_set, known0, reads, finVars, extVars>>

\* line 219: set_idrac_fan_mode_auto()
LoopSetAuto ==
  /\ pc = "set_auto"
  /\ \E result \in RunResults :
       /\ cmds' = Append(cmds, Issued(DELL_ENABLE_AUTO_FAN_CMD_ARGS, result))
       /\ ScenCommand(DELL_ENABLE_AUTO_FAN_CMD_ARGS, result)
       /\ ModeCommand(DELL_ENABLE_AUTO_FAN_CMD_ARGS, result)
       /\ IF Escapes(result) # "none"
          THEN LeaveLoop(Escapes(result)) /\ UNCHANGED idrac_fan_mode_is_manual
          ELSE /\ idrac_fan_mode_is_manual' = set_idrac_fan_mode_auto(result)
               /\ pc' = "sleep"
               /\ UNCHANGED <<exc, loop_exit>>
  /\ UNCHANGED <<local_cpu_temp, ohm, decision, target_speed_hex, speed_set, known0, reads, finVars, extVars>>

\* lines 179-181 with ensure_idrac_fan_mode_manual (lines 152-167)
EnsureManual ==
  /\ pc = "ensure_manual"
  /\ IF AlreadyManual
     THEN /\ pc' = "set_speed"
          /\ UNCHANGED <<idrac_fan_mode_is_manual, exc, speed_set, cmds, loop_exit, scenVars, modeVars>>
     ELSE \E result \in RunResults :
          /\ cmds' = Append(cmds, Issued(DELL_DISABLE_AUTO_FAN_CMD_ARGS, result))
          /\ ScenCommand(DELL_DISABLE_AUTO_FAN_CMD_ARGS, result)
          /\ ModeCommand(DELL_DISABLE_AUTO_FAN_CMD_ARGS, result)
          /\ IF Escapes(result) # "none"
             THEN LeaveLoop(Escapes(result)) /\ UNCHANGED <<idrac_fan_mode_is_manual, speed_set>>
             ELSE IF ensure_idrac_fan_mode_manual(result).ret
             THEN /\ idrac_fan_mode_is_manual' = ensure_idrac_fan_mode_manual(result).mode
                  /\ pc' = "set_speed"
                  /\ UNCHANGED <<exc, speed_set, loop_exit>>
             ELSE /\ idrac_fan_mode_is_manual' = ensure_idrac_fan_mode_manual(result).mode
                  /\ speed_set' = "False"
                  /\ pc' = "sleep"
                  /\ UNCHANGED <<exc, loop_exit>>
  /\ UNCHANGED <<local_cpu_temp, ohm, decision, target_speed_hex, known0, reads, finVars, extVars>>

\* lines 183-189: the speed command of set_idrac_fan_speed_percentage
SetSpeed ==
  /\ pc = "set_speed"
  /\ \E result \in RunResults :
       /\ cmds' = Append(cmds, Issued(SpeedArgs(target_speed_hex), result))
       /\ ScenCommand(SpeedArgs(target_speed_hex), result)
       /\ IF Escapes(result) # "none"
          THEN LeaveLoop(Escapes(result)) /\ UNCHANGED speed_set
          ELSE /\ speed_set' = IF run_ipmi_command(SpeedArgs(target_speed_hex), FALSE, result)
                               THEN "True" ELSE "False"
               /\ pc' = "sleep"
               /\ UNCHANGED <<exc, loop_exit>>
  /\ UNCHANGED <<idrac_fan_mode_is_manual, local_cpu_temp, ohm, decision, target_speed_hex, known0, reads, finVars, modeVars, extVars>>

\* lines 239-240 and 209-211: the sleep ends and the next iteration begins
LoopSleep ==
  /\ pc = "sleep"
  /\ pc' = "fetch"
  /\ local_cpu_temp' = NoReading
  /\ ohm' = "none"
  /\ decision' = "none"
  /\ target_speed_hex' = "None"
  /\ speed_set' = "none"
  /\ cmds' = <<>>
  /\ known0' = idrac_fan_mode_is_manual
  /\ IF scenPos >= 0 /\ scenPos < Len(Scenario)
     THEN /\ scenPos' = scenPos + 1
          /\ scenKnown' = Append(scenKnown, idrac_fan_mode_is_manual)
          /\ UNCHANGED scenCmds
     ELSE ScenOff
  /\ reads' = 0
  /\ UNCHANGED <<idrac_fan_mode_is_manual, exc, loop_exit, finVars, modeVars, extVars>>

\* ------------------------------------------------------------------------
\* Ctrl+C: KeyboardInterrupt is raised wherever the script is
\* ------------------------------------------------------------------------
\* in main_control_loop, outside a running ipmitool command
InterruptLoop ==
  /\ pc \in LoopPcs
  /\ LeaveLoop("KeyboardInterrupt")
  /\ IF scenPos = Len(Scenario) THEN UNCHANGED scenVars ELSE ScenOff
  /\ UNCHANGED <<idrac_fan_mode_is_manual, tickVars, finVars, modeVars, extVars>>

\* in an except clause (lines 246-249): the finally block still runs, the
\* new exception is raised again after it
InterruptExcept ==
  /\ pc = "raised"
  /\ pc' = "finally"
  /\ exc' = "KeyboardInterrupt"
  /\ UNCHANGED <<idrac_fan_mode_is_manual, tickVars, loop_exit, finVars, scenVars, modeVars, extVars>>

\* in the finally block (lines 251-273): nothing catches it
InterruptFinally ==
  /\ pc \in FinPcs
  /\ pc' = "exit"
  /\ exc' = "KeyboardInterrupt"
  /\ fin_abort' = "KeyboardInterrupt"
  /\ UNCHANGED <<idrac_fan_mode_is_manual, tickVars, loop_exit, fin_entered, fin_known0,
                 last_known_local_temp, fin_ohm, fin_cmds, scenVars, modeVars, extVars>>

\* ------------------------------------------------------------------------
\* __main__ (fan.py lines 242-273)
\* ------------------------------------------------------------------------
\* lines 245-246
ExceptKeyboardInterrupt ==
  /\ pc = "raised"
  /\ exc = "KeyboardInterrupt"
  /\ pc' = "finally"
  /\ exc' = "none"
  /\ UNCHANGED <<idrac_fan_mode_is_manual, tickVars, loop_exit, finVars, scenVars, modeVars, extVars>>

\* lines 247-249
ExceptException_NoCleanup ==
  /\ pc = "raised"
  /\ exc = "Exception"
  /\ pc' = "exit"
  /\ UNCHANGED <<idrac_fan_mode_is_manual, exc, tickVars, loop_exit, finVars, scenVars, modeVars, extVars>>
ExceptException ==
  /\ pc = "raised"
  /\ exc = "Exception"
  /\ pc' = "finally"
  /\ exc' = "none"
  /\ UNCHANGED <<idrac_fan_mode_is_manual, tickVars, loop_exit, finVars, scenVars, modeVars, extVars>>

\* lines 250-254: control enters the finally block
FinallyBegin ==
  /\ pc = "finally"
  /\ pc' = "fin_fetch"
  /\ fin_entered' = fin_entered + 1
  /\ fin_known0' = idrac_fan_mode_is_manual
  /\ UNCHANGED <<idrac_fan_mode_is_manual, exc, tickVars, loop_exit,
                 last_known_local_temp, fin_ohm, fin_cmds, fin_abort, scenVars, modeVars, extVars>>

\* line 256: last_known_local_temp = get_cpu_package_temp_from_ohm()
FinFetch ==
  /\ pc = "fin_fetch"
  /\ \E response \in Responses :
       LET r == get_cpu_package_temp_from_ohm(response) IN
       /\ fin_ohm' = OhmClass(response)
       /\ IF r.raised
          THEN /\ pc' = "exit"
               /\ exc' = "Exception"
               /\ fin_abort' = "Exception"
               /\ UNCHANGED last_known_local_temp
          ELSE /\ pc' = "fin_decide"
               /\ last_known_local_temp' = r.temp
               /\ UNCHANGED <<exc, fin_abort>>
  /\ UNCHANGED <<idrac_fan_mode_is_manual, tickVars, loop_exit, fin_entered, fin_known0, fin_cmds, scenVars, modeVars, extVars>>

\* lines 258-270: the branch taken on the last reading; the branch that
\* keeps the current setting falls through to the end of the script
FinDecide_LoopReading ==
  /\ pc = "fin_decide"
  /\ IF HasReading(local_cpu_temp) /\ ~GoesAuto(local_cpu_temp)
     THEN pc' = "exit"
     ELSE pc' = "fin_set_auto"
  /\ UNCHANGED <<idrac_fan_mode_is_manual, exc, tickVars, loop_exit, finVars, scenVars, modeVars, extVars>>
FinDecide_SkipWhenAuto ==
  /\ pc = "fin_decide"
  /\ IF (HasReading(last_known_local_temp) /\ ~GoesAuto(last_known_local_temp))
        \/ idrac_fan_mode_is_manual = Auto
     THEN pc' = "exit"
     ELSE pc' = "fin_set_auto"
  /\ UNCHANGED <<idrac_fan_mode_is_manual, exc, tickVars, loop_exit, finVars, scenVars, modeVars, extVars>>
FinDecide ==
  /\ pc = "fin_decide"
  /\ IF HasReading(last_known_local_temp) /\ ~GoesAuto(last_known_local_temp)
     THEN pc' = "exit"
     ELSE pc' = "fin_set_auto"
  /\ UNCHANGED <<idrac_fan_mode_is_manual, exc, tickVars, loop_exit, finVars, scenVars, modeVars, extVars>>

\* lines 262 and 270: set_idrac_fan_mode_auto(), then lines 272-273
FinSetAuto ==
  /\ pc = "fin_set_auto"
  /\ \E result \in RunResults :
       /\ fin_cmds' = Append(fin_cmds, Issued(DELL_ENABLE_AUTO_FAN_CMD_ARGS, result))
       /\ pc' = "exit"
       /\ ModeCommand(DELL_ENABLE_AUTO_FAN_CMD_ARGS, result)
       /\ IF Escapes(result) # "none"
          THEN /\ exc' = Escapes(result)
               /\ fin_abort' = Escapes(result)
               /\ UNCHANGED idrac_fan_mode_is_manual
          ELSE /\ idrac_fan_mode_is_manual' = set_idrac_fan_mode_auto(result)
               /\ UNCHANGED <<exc, fin_abort>>
  /\ UNCHANGED <<tickVars, loop_exit, fin_entered, fin_known0, last_known_local_temp, fin_ohm, scenVars, extVars>>

Next ==
  \/ LoopFetch
  \/ LoopDecide
  \/ LoopSetAuto
  \/ EnsureManual
  \/ SetSpeed
  \/ LoopSleep
  \/ InterruptLoop
  \/ InterruptExcept
  \/ InterruptFinally
  \/ ExceptKeyboardInterrupt
  \/ ExceptException
  \/ FinallyBegin
  \/ FinFetch
  \/ FinDecide
  \/ FinSetAuto

Spec == Init /\ [][Next]_vars

\* the interpreter keeps running the script: an except clause and the
\* finally block are not left waiting
FairSpec ==
  /\ Spec
  /\ WF_vars(ExceptKeyboardInterrupt \/ ExceptException \/ InterruptExcept)
  /\ WF_vars(FinallyBegin)

\* ------------------------------------------------------------------------
\* The reader on its own: get_cpu_package_temp_from_ohm applied to one
\* well-formed snapshot
\* ------------------------------------------------------------------------
MaxLeaves == 2

Leaves == { Package(50), Package(72), Core(72), Sensor(CpuPackage, Text("n/a")) }
LeafLists == UNION { [1..n -> Leaves] : n \in 0..MaxLeaves }
Nodes == { IntelCpu(l) : l \in LeafLists } \cup { IconCpu(l) : l \in LeafLists } \cup { Ram(l) : l \in LeafLists }
Snapshots == { Document(<<a>>) : a \in Nodes } \cup { Document(<<a, b>>) : a \in Nodes, b \in Nodes }

ExtractInit ==
  /\ ControlInit
  /\ snapshot \in Snapshots
  /\ extracted = NotExtracted

\* one call of get_cpu_package_temp_from_ohm whose response decodes to snapshot
Extract ==
  /\ ~extracted.done
  /\ LET r == get_cpu_package_temp_from_ohm(Json(snapshot))
     IN extracted' = [done |-> TRUE, raised |-> r.raised, temp |-> r.temp]
  /\ UNCHANGED <<idrac_fan_mode_is_manual, pc, exc, tickVars, loop_exit, finVars, scenVars, modeVars, snapshot>>

ExtractNext == Extract

ExtractSpec == ExtractInit /\ [][ExtractNext]_vars

\* time.sleep returns: an iteration that reached line 240 is followed by the
\* next one unless Ctrl+C arrives
LoopFairSpec == FairSpec /\ WF_vars(LoopSleep)

TypeOK ==
  /\ idrac_fan_mode_is_manual \in {Unknown, Manual, Auto}
  /\ pc \in LoopPcs \cup FinPcs \cup {"raised", "finally", "exit"}
  /\ fin_entered \in 0..1

\* ------------------------------------------------------------------------
\* Vocabulary of the properties
\* ------------------------------------------------------------------------
IsEnableAuto(c) == c.args = DELL_ENABLE_AUTO_FAN_CMD_ARGS
IsManualEnable(c) == c.args = DELL_DISABLE_AUTO_FAN_CMD_ARGS
IsSpeedSet(c) == SubSeq(c.args, 1, Len(DELL_SET_FAN_SPEED_PREFIX_CMD_ARGS)) = DELL_SET_FAN_SPEED_PREFIX_CMD_ARGS

InLoop == pc \in LoopPcs
TickEnded == pc = "sleep"
Exited == pc = "exit"
\* the finally block ran to its last line
FinCompleted == pc = "exit" /\ fin_abort = "none"
FinReadingPresent == fin_ohm = "reading" /\ last_known_local_temp.present
AutoBand(t) == t >= TEMP_AUTO_THRESHOLD_NEW
MediumBand(t) == TEMP_LOW_THRESHOLD_NEW <= t /\ t < TEMP_AUTO_THRESHOLD_NEW
LowBand(t) == t < TEMP_LOW_THRESHOLD_NEW

\* ------------------------------------------------------------------------
\* C1 - State reset on failure: at the end of a loop iteration in which an
\* issued command (enable-auto, manual-mode-enable or speed-set) was
\* classified as a failure, idrac_fan_mode_is_manual is None.
\* The script does not do this for the speed-set command.
\* ------------------------------------------------------------------------
C1_StateResetOnFailure ==
  (TickEnded /\ \E i \in 1..Len(cmds) : IsFailure(cmds[i])) => idrac_fan_mode_is_manual = Unknown

\* ------------------------------------------------------------------------
\* C2 - Finalization runs exactly once on every termination path: whenever
\* main_control_loop is left, by Ctrl+C at any point of an iteration or by an
\* unhandled exception, the finally block is eventually entered; the script
\* never ends without it, and it is never entered twice.
\* ------------------------------------------------------------------------
C2_FinalizationOnce ==
  /\ [](fin_entered <= 1)
  /\ [](pc \in FinPcs \cup {"exit"} => fin_entered = 1)
  /\ [](loop_exit # NotLeft => <>(fin_entered = 1))

C2_Witness ==
  /\ fin_entered = 1
  /\ loop_exit = [at |-> "set_speed", by |-> "KeyboardInterrupt"]
  /\ Len(cmds) = 1 /\ IsManualEnable(cmds[1])

\* ------------------------------------------------------------------------
\* C3 - Finalization is not cancellable: once the finally block is entered
\* the script ends only after it reached its decision and, when that
\* decision is to set automatic mode (reading absent or >= the auto
\* threshold), after it issued the enable-auto command.
\* The script can be stopped inside the finally block.
\* ------------------------------------------------------------------------
C3_FinalizationRunsToCompletion ==
  Exited =>
    /\ fin_abort = "none"
    /\ (~last_known_local_temp.present \/ AutoBand(last_known_local_temp.val))
         => \E i \in 1..Len(fin_cmds) : IsEnableAuto(fin_cmds[i])

\* ------------------------------------------------------------------------
\* C4 - Finalization safety with a reading present: whatever
\* idrac_fan_mode_is_manual was, a finally block that ran to its end on a
\* reading issued the enable-auto command if and only if the reading was
\* >= the auto threshold; at every point of the finally block a reading
\* below the threshold means no command was issued and
\* idrac_fan_mode_is_manual is as it was on entry, and a command issued on
\* a reading is a single enable-auto on a reading >= the threshold.
\* ------------------------------------------------------------------------
C4_FinalizationDecision ==
  /\ (FinCompleted /\ FinReadingPresent)
       => ((\E i \in 1..Len(fin_cmds) : IsEnableAuto(fin_cmds[i]))
             <=> AutoBand(last_known_local_temp.val))
  /\ (FinReadingPresent /\ ~AutoBand(last_known_local_temp.val))
       => (fin_cmds = <<>> /\ idrac_fan_mode_is_manual = fin_known0)
  /\ (FinReadingPresent /\ fin_cmds # <<>>)
       => (Len(fin_cmds) = 1 /\ IsEnableAuto(fin_cmds[1]) /\ AutoBand(last_known_local_temp.val))

C4_Witness ==
  /\ FinCompleted
  /\ fin_known0 = Manual
  /\ last_known_local_temp = Reading(TEMP_AUTO_THRESHOLD_NEW)
  /\ Len(fin_cmds) = 1 /\ IsEnableAuto(fin_cmds[1])

\* ------------------------------------------------------------------------
\* C5 - Blind shutdown default: when the telemetry read of the finally block
\* gives no reading (feed unreachable, undecodable, malformed in shape, or
\* without a CPU Package sensor) and no Ctrl+C arrives, the script ends
\* having issued the enable-auto command exactly once.
\* The script ends without a command on a shape that makes the reader raise.
\* ------------------------------------------------------------------------
C5_BlindShutdownDefault ==
  (Exited /\ fin_abort # "KeyboardInterrupt" /\ fin_ohm \in {"transport", "decode", "shape", "nosensor"})
    => (Len(fin_cmds) = 1 /\ IsEnableAuto(fin_cmds[1]))

\* ------------------------------------------------------------------------
\* C6 - Idempotence of mode tracking: in a loop iteration that began with
\* idrac_fan_mode_is_manual = True and read a temperature below the auto
\* threshold, the manual-mode-enable command is not issued whatever the
\* outcome of the commands, the iteration ends having issued exactly one
\* speed-set command and nothing else, and idrac_fan_mode_is_manual is still
\* True, so that the next iteration begins the same way.
\* ------------------------------------------------------------------------
C6_ManualTick ==
  InLoop /\ known0 = Manual /\ local_cpu_temp.present /\ ~AutoBand(local_cpu_temp.val)

C6_Idempotence ==
  /\ [](C6_ManualTick =>
         /\ \A i \in 1..Len(cmds) : ~IsManualEnable(cmds[i]) /\ ~IsEnableAuto(cmds[i])
         /\ idrac_fan_mode_is_manual = Manual
         /\ TickEnded => (Len(cmds) = 1 /\ cmds[1].args = SpeedArgs(target_speed_hex)))
  /\ [][(C6_ManualTick /\ TickEnded /\ pc' = "fetch") => known0' = Manual]_vars

C6_Witness ==
  /\ C6_ManualTick /\ TickEnded
  /\ Len(cmds) = 1 /\ IsSpeedSet(cmds[1]) /\ IsFailure(cmds[1])

\* ------------------------------------------------------------------------
\* C7 - Absence handling: a loop iteration whose telemetry read gave no
\* reading issues no command of any kind and leaves
\* idrac_fan_mode_is_manual as it was when the iteration began.
\* ------------------------------------------------------------------------
C7_NoReadingTick == InLoop /\ ohm \notin {"none", "reading"}

C7_AbsenceHandling ==
  C7_NoReadingTick =>
    /\ ~local_cpu_temp.present
    /\ cmds = <<>>
    /\ idrac_fan_mode_is_manual = known0
    /\ pc \in {"decide", "sleep"}

C7_Witness ==
  C7_NoReadingTick /\ TickEnded /\ known0 = Manual /\ ohm = "transport"

\* ------------------------------------------------------------------------
\* C8 - Band mapping: for every reading t and every idrac_fan_mode_is_manual
\* the loop iteration targets automatic mode if t >= AUTO, manual medium
\* speed if LOW <= t < AUTO and manual low speed if t < LOW, exactly one of
\* the three; the commands it issues are those of the target.
\* ------------------------------------------------------------------------
C8_Decided == InLoop /\ decision # "none" /\ local_cpu_temp.present

C8_BandMapping ==
  C8_Decided =>
    LET t == local_cpu_temp.val IN
    /\ AutoBand(t) => (decision = "SetAutoMode" /\ target_speed_hex = "None")
    /\ MediumBand(t) => (decision = "SetManualSpeed" /\ target_speed_hex = FAN_SPEED_MEDIUM_HEX_NEW)
    /\ LowBand(t) => (decision = "SetManualSpeed" /\ target_speed_hex = FAN_SPEED_LOW_HEX_NEW)
    /\ \A i \in 1..Len(cmds) :
         /\ IsEnableAuto(cmds[i]) => AutoBand(t)
         /\ IsManualEnable(cmds[i]) => ~AutoBand(t)
         /\ IsSpeedSet(cmds[i]) =>
              cmds[i].args = SpeedArgs(IF LowBand(t) THEN FAN_SPEED_LOW_HEX_NEW ELSE FAN_SPEED_MEDIUM_HEX_NEW)
    /\ (TickEnded /\ \A i \in 1..Len(cmds) : IsSuccess(cmds[i])) =>
         /\ cmds # <<>>
         /\ IF AutoBand(t) THEN IsEnableAuto(cmds[Len(cmds)]) ELSE IsSpeedSet(cmds[Len(cmds)])

C8_Witness ==
  /\ C8_Decided /\ TickEnded
  /\ local_cpu_temp.val = TEMP_LOW_THRESHOLD_NEW
  /\ known0 = Auto
  /\ Len(cmds) = 2 /\ cmds[2].args = SpeedArgs(FAN_SPEED_MEDIUM_HEX_NEW)

\* ------------------------------------------------------------------------
\* C9 - End-to-end scenario: from idrac_fan_mode_is_manual = None, with every
\* command succeeding, the readings 50, 65, 72, 68 on four consecutive
\* iterations issue exactly manual-mode-enable, speed-set(LOW),
\* speed-set(MEDIUM), enable-auto, manual-mode-enable, speed-set(MEDIUM), and
\* idrac_fan_mode_is_manual after the iterations is True, True, False, True.
\* ------------------------------------------------------------------------
C9_Scenario ==
  scenPos = Len(Scenario) =>
    /\ scenCmds = << DELL_DISABLE_AUTO_FAN_CMD_ARGS,
                     SpeedArgs(FAN_SPEED_LOW_HEX_NEW),
                     SpeedArgs(FAN_SPEED_MEDIUM_HEX_NEW),
                     DELL_ENABLE_AUTO_FAN_CMD_ARGS,
                     DELL_DISABLE_AUTO_FAN_CMD_ARGS,
                     SpeedArgs(FAN_SPEED_MEDIUM_HEX_NEW) >>
    /\ scenKnown = <<Manual, Manual, Auto, Manual>>

C9_Witness == scenPos = Len(Scenario) /\ pc = "fetch" /\ Len(scenCmds) = 6

\* ------------------------------------------------------------------------
\* C10 - Manual-mode prerequisite and ordering: a speed-set command is issued
\* only while idrac_fan_mode_is_manual = True; in an iteration on a manual
\* band that began in another state the manual-mode-enable command comes
\* first, the speed-set command follows only if that command succeeded
\* (zero exit, or non-zero exit with empty stderr), and if it failed no
\* speed-set command is issued and set_idrac_fan_speed_percentage returns
\* False.
\* ------------------------------------------------------------------------
C10_IssuesSpeed == Len(cmds') = Len(cmds) + 1 /\ IsSpeedSet(cmds'[Len(cmds')])

C10_ManualPrerequisite ==
  /\ [][C10_IssuesSpeed => idrac_fan_mode_is_manual = Manual]_vars
  /\ []((InLoop /\ decision = "SetManualSpeed" /\ known0 # Manual /\ cmds # <<>>) =>
         /\ IsManualEnable(cmds[1])
         /\ Len(cmds) <= 2
         /\ Len(cmds) = 2 => (IsSuccess(cmds[1]) /\ IsSpeedSet(cmds[2]))
         /\ IsFailure(cmds[1]) => (Len(cmds) = 1 /\ TickEnded /\ speed_set = "False"))

C10_Witness ==
  /\ TickEnded /\ decision = "SetManualSpeed" /\ known0 = Auto
  /\ Len(cmds) = 1 /\ IsManualEnable(cmds[1]) /\ IsFailure(cmds[1])
  /\ speed_set = "False"

\* ------------------------------------------------------------------------
\* C11 - No telemetry error is fatal in the loop: whatever the telemetry
\* read meets (transport error, non-2xx status, undecodable JSON, a document
\* of unexpected shape such as a top-level value, first child or hardware
\* entry that is not an object, or a sensor value that is not text), the
\* iteration has no reading and main_control_loop is not left.
\* The reader raises on a value that is not an object or not text.
\* ------------------------------------------------------------------------
C11_NoFatalTelemetryError ==
  /\ loop_exit # [at |-> "fetch", by |-> "Exception"]
  /\ (reads = 1 /\ ohm \in {"transport", "decode", "shape"})
       => (pc \in {"decide", "sleep"} \/ loop_exit.by = "KeyboardInterrupt")

\* ------------------------------------------------------------------------
\* C12 - Ambiguous success counts as success: when the enable-auto or the
\* manual-mode-enable command of a loop iteration exits non-zero with an
\* empty stderr, idrac_fan_mode_is_manual becomes False, respectively True,
\* as for a zero exit, never None, and set_idrac_fan_speed_percentage goes
\* on to the speed-set command.
\* ------------------------------------------------------------------------
C12_Ambiguous(c) == c.result = CalledProcessError("")

C12_AmbiguousSuccess ==
  (InLoop /\ cmds # <<>> /\ C12_Ambiguous(cmds[1])) =>
    /\ IsEnableAuto(cmds[1]) => (idrac_fan_mode_is_manual = Auto /\ TickEnded)
    /\ IsManualEnable(cmds[1]) =>
         /\ idrac_fan_mode_is_manual = Manual
         /\ pc \in {"set_speed", "sleep"}
         /\ TickEnded => (Len(cmds) = 2 /\ IsSpeedSet(cmds[2]))

C12_Witness ==
  /\ TickEnded /\ known0 = Auto
  /\ Len(cmds) = 2 /\ IsManualEnable(cmds[1]) /\ C12_Ambiguous(cmds[1])
  /\ cmds[2] = Issued(SpeedArgs(FAN_SPEED_LOW_HEX_NEW), Completed)
  /\ idrac_fan_mode_is_manual = Manual

\* ------------------------------------------------------------------------
\* C13 - Mode transitions are deduplicated: a loop iteration whose target
\* mode is the tracked one issues no mode command: no manual-mode-enable when
\* it began with idrac_fan_mode_is_manual = True on a reading below the auto
\* threshold, no enable-auto when it began with False on a reading >= it.
\* The script issues enable-auto on every iteration in the auto band.
\* ------------------------------------------------------------------------
C13_ModeDeduplication ==
  (InLoop /\ local_cpu_temp.present) =>
    /\ (known0 = Manual /\ ~AutoBand(local_cpu_temp.val))
         => \A i \in 1..Len(cmds) : ~IsManualEnable(cmds[i])
    /\ (known0 = Auto /\ AutoBand(local_cpu_temp.val))
         => \A i \in 1..Len(cmds) : ~IsEnableAuto(cmds[i])

\* ------------------------------------------------------------------------
\* C14 - Post-state on success: at the end of a loop iteration with a reading
\* in which every issued command succeeded (zero exit, or non-zero exit with
\* empty stderr), idrac_fan_mode_is_manual is False if the reading was >= the
\* auto threshold and True otherwise, whatever it was before.
\* ------------------------------------------------------------------------
C14_SuccessfulTick ==
  TickEnded /\ local_cpu_temp.present /\ \A i \in 1..Len(cmds) : IsSuccess(cmds[i])

C14_PostState ==
  C14_SuccessfulTick =>
    /\ cmds # <<>>
    /\ idrac_fan_mode_is_manual = IF AutoBand(local_cpu_temp.val) THEN Auto ELSE Manual

C14_Witness ==
  /\ C14_SuccessfulTick
  /\ known0 = Unknown /\ local_cpu_temp = Reading(69)
  /\ Len(cmds) = 2 /\ cmds[1].result = Completed
  /\ idrac_fan_mode_is_manual = Manual

\* ------------------------------------------------------------------------
\* C15 - Command failure never stops the loop: after a command of a loop
\* iteration ended with a non-zero exit and text on stderr, a timeout, a
\* missing executable or any other exception of the call, no exception
\* leaves main_control_loop, the iteration issues nothing more and is at its
\* sleep, and the next iteration begins unless Ctrl+C arrives.
\* ------------------------------------------------------------------------
C15_Fault(c) ==
  c.result \in { CalledProcessError("diagnostic"), Throws("TimeoutExpired"),
                 Throws("FileNotFoundError"), Throws("OSError") }

C15_FailedTick == InLoop /\ \E i \in 1..Len(cmds) : C15_Fault(cmds[i])

C15_FailureNeverStopsLoop ==
  /\ [](loop_exit.by = "Exception" => loop_exit.at = "fetch")
  /\ []((cmds # <<>> /\ C15_Fault(cmds[Len(cmds)]) /\ loop_exit.by # "KeyboardInterrupt")
          => (TickEnded /\ exc = "none"))
  /\ [](C15_FailedTick => C15_Fault(cmds[Len(cmds)]))
  /\ [](C15_FailedTick => <>(pc = "fetch" \/ loop_exit.by = "KeyboardInterrupt"))

C15_Witness ==
  /\ TickEnded
  /\ Len(cmds) = 2 /\ IsSpeedSet(cmds[2]) /\ cmds[2].result = Throws("OSError")

\* ------------------------------------------------------------------------
\* C16 - No retry within a tick: an iteration reads the temperature once and
\* issues each command at most once, two commands at most (manual-enable and
\* speed-set), and never both enable-auto and a manual-band command; a
\* failed command is not issued again before the next iteration.
\* ------------------------------------------------------------------------
C16_NoRetry ==
  /\ reads <= 1
  /\ (pc \in (LoopPcs \ {"fetch"}) => reads = 1)
  /\ Len(cmds) <= 2
  /\ \A i, j \in 1..Len(cmds) : i # j => cmds[i].args # cmds[j].args
  /\ (Len(cmds) = 2 => IsManualEnable(cmds[1]) /\ IsSpeedSet(cmds[2]))
  /\ ~ /\ \E i \in 1..Len(cmds) : IsEnableAuto(cmds[i])
       /\ \E i \in 1..Len(cmds) : IsManualEnable(cmds[i]) \/ IsSpeedSet(cmds[i])

C16_Witness ==
  /\ TickEnded /\ reads = 1
  /\ cmds = <<Issued(DELL_ENABLE_AUTO_FAN_CMD_ARGS, Throws("TimeoutExpired"))>>

\* ------------------------------------------------------------------------
\* C17 - Extractor maximum: for every well-formed snapshot the reading
\* returned is the maximum over every parseable leaf named "CPU Package" in
\* a Temperatures group of any CPU-class hardware node, also when one node
\* carries several such leaves or several nodes are present, and it is "no
\* reading" exactly when no such leaf parses.
\* ------------------------------------------------------------------------
C17_Items(node) == node.f["Children"].items

C17_Parses(leaf) ==
  /\ leaf.f["Text"] = CpuPackage
  /\ leaf.f["Value"].t = "str"
  /\ leaf.f["Value"].tokens # <<>>
  /\ leaf.f["Value"].tokens[1].num

\* the values of all parseable CPU Package leaves of a snapshot
C17_PackageValues(doc) ==
  LET hardware_list == C17_Items(C17_Items(doc)[1])
  IN { C17_Items(C17_Items(hardware_list[h])[g])[l].f["Value"].tokens[1].v :
         <<h, g, l>> \in
           { x \in (1..Len(hardware_list)) \X (1..1) \X (1..MaxLeaves) :
               /\ IsCpu(hardware_list[x[1]]).is_cpu
               /\ x[2] <= Len(C17_Items(hardware_list[x[1]]))
               /\ C17_Items(hardware_list[x[1]])[x[2]].f["Text"] = Text("Temperatures")
               /\ x[3] <= Len(C17_Items(C17_Items(hardware_list[x[1]])[x[2]]))
               /\ C17_Parses(C17_Items(C17_Items(hardware_list[x[1]])[x[2]])[x[3]]) } }

C17_Maximum(values) == CHOOSE m \in values : \A v \in values : v <= m

C17_ExtractorMaximum ==
  extracted.done =>
    /\ ~extracted.raised
    /\ extracted.temp = IF C17_PackageValues(snapshot) = {} THEN NoReading
                        ELSE Reading(C17_Maximum(C17_PackageValues(snapshot)))

\* ------------------------------------------------------------------------
\* C18 - Belief matches the last acknowledged mode command: in every state
\* of the loop and of the finally block, idrac_fan_mode_is_manual = True
\* implies that the most recent mode-set command was manual-enable and was
\* classified as a success, False implies that it was enable-auto and was
\* classified as a success, and None holds initially and otherwise only when
\* the most recent mode-set command failed.
\* ------------------------------------------------------------------------
C18_Matches(last, failures) ==
  /\ idrac_fan_mode_is_manual = Manual
       => last = [args |-> DELL_DISABLE_AUTO_FAN_CMD_ARGS, outcome |-> "ok"]
  /\ idrac_fan_mode_is_manual = Auto
       => last = [args |-> DELL_ENABLE_AUTO_FAN_CMD_ARGS, outcome |-> "ok"]
  /\ idrac_fan_mode_is_manual = Unknown
       => (last = NoModeCommand \/ last.outcome \in failures)

\* as stated: the most recently issued mode-set command (one cut short by
\* Ctrl+C counted among the failed ones)
C18_BeliefMatchesIssued == C18_Matches(mode_issued, {"failed", "interrupted"})

\* as amended: the most recent mode-set command that returned; one cut short
\* by Ctrl+C is never classified and leaves the variable as it was
C18_BeliefMatchesAcknowledged ==
  /\ C18_Matches(mode_acked, {"failed"})
  /\ (mode_issued # mode_acked => mode_issued.outcome = "interrupted")

C18_Witness ==
  /\ Exited
  /\ idrac_fan_mode_is_manual = Manual
  /\ mode_issued = [args |-> DELL_ENABLE_AUTO_FAN_CMD_ARGS, outcome |-> "interrupted"]
  /\ mode_acked = [args |-> DELL_DISABLE_AUTO_FAN_CMD_ARGS, outcome |-> "ok"]

\* ------------------------------------------------------------------------
\* C19 - Finalization is read-then-at-most-one-auto-command: the finally
\* block never issues manual-enable or a speed command, issues one command
\* at most and does not repeat a failed enable-auto, and whether it issues
\* enable-auto or nothing is a function of the reading it took itself,
\* whatever idrac_fan_mode_is_manual and the loop's last reading were.
\* ------------------------------------------------------------------------
C19_IssuesAuto(reading) == ~reading.present \/ reading.val >= TEMP_AUTO_THRESHOLD_NEW

C19_ReadThenAtMostOneAuto ==
  /\ \A i \in 1..Len(fin_cmds) : IsEnableAuto(fin_cmds[i])
  /\ Len(fin_cmds) <= 1
  /\ (fin_cmds # <<>> => pc = "exit")
  /\ ((pc = "fin_set_auto" \/ fin_cmds # <<>>) => C19_IssuesAuto(last_known_local_temp))
  /\ ((FinCompleted /\ fin_cmds = <<>>) => ~C19_IssuesAuto(last_known_local_temp))

C19_Witness ==
  /\ FinCompleted
  /\ fin_known0 = Auto
  /\ local_cpu_temp = Reading(50)
  /\ last_known_local_temp = Reading(72)
  /\ fin_cmds = <<Issued(DELL_ENABLE_AUTO_FAN_CMD_ARGS, Throws("TimeoutExpired"))>>
  /\ idrac_fan_mode_is_manual = Unknown

====
